---- MODULE Spec2Model ----
(***************************************************************************)
(* The notebook working_with_tidy_data.ipynb as a state machine.  A state  *)
(* is the notebook's namespace (untidy, tidy, untidy_complex,              *)
(* tidy_complex), one action is one code cell, run top to bottom; a cell   *)
(* that raises stops the run.  The table literal of the first cell, the    *)
(* substitution table passed to replace and the three field names are      *)
(* inputs, drawn in Init from small sets that contain the notebook's own   *)
(* literals.                                                               *)
(*                                                                         *)
(* A DataFrame is a record                                                 *)
(*   index, index_name, columns, columns_name, data                        *)
(* where data[j] is the value array of the column at position j, so that   *)
(* two columns may carry the same label, as in pandas.                     *)
(*                                                                         *)
(* Series.replace with a dict on a column of strings applies the pairs one *)
(* after another in pandas before 0.24 and all at once from 0.24 on; the   *)
(* notebook runs on both (it needs DataFrame.append, removed in 2.0), so   *)
(* the installed behaviour is an input, sequentialReplace.                 *)
(***************************************************************************)
EXTENDS Integers, Sequences, FiniteSets, TLC

VARIABLES pc, err, raw, rename, labels, sequentialReplace,
          untidy, tidy, untidy_complex, tidy_complex

vars == <<pc, err, raw, rename, labels, sequentialReplace,
          untidy, tidy, untidy_complex, tidy_complex>>

----------------------------------------------------------------------------
(* Bounds and input pools *)

MaxRows == 2

RowPool == {"John Smith", "Jane Doe"}

ColPool == {"treatment_a", "treatment_b"}

ValuePool == {1, 2}

ShortNames == {"a", "b"}

LabelPool == {"person", "treatment", "IgG_level"}

SeqsUpTo(S, n) == UNION {[1..k -> S] : k \in 0..n}

Distinct(s) == \A i, j \in DOMAIN s : i # j => s[i] # s[j]

ToSet(s) == {s[i] : i \in DOMAIN s}

\* the column orders a frame over ColPool can have: labels of a dict are unique
ColumnOrders == {s \in SeqsUpTo(ColPool, Cardinality(ColPool)) : Distinct(s)}

\* what is handed to pd.DataFrame: an index and one list per column, of any length
RawTables ==
  UNION {[index : {ix}, columns : {cs},
          data : [1..Len(cs) -> SeqsUpTo(ValuePool, MaxRows)]] :
         ix \in SeqsUpTo(RowPool, MaxRows), cs \in ColumnOrders}

\* cell 3, lines 68-69
NotebookRaw ==
  [index |-> <<"John Smith", "Jane Doe", "Mary Johnson">>,
   columns |-> <<"treatment_a", "treatment_b">>,
   data |-> << <<9, 16, 3>>, <<2, 11, 1>> >>]

\* the same literal with the last value of treatment_b dropped
NotebookRagged ==
  [NotebookRaw EXCEPT !.data = << <<9, 16, 3>>, <<2, 11>> >>]

\* line 91: the dict passed to replace, in its insertion order
NotebookRename == << <<"treatment_a", "a">>, <<"treatment_b", "b">> >>

\* lines 88-90: index.name, columns.name, value_name
SourceLabels == [row |-> "person", var |-> "treatment", val |-> "IgG_level"]

\* substitution tables: a dict is a sequence of (key, value) with distinct keys
Renames ==
  {r \in SeqsUpTo(ColPool \X (ShortNames \cup ColPool), Cardinality(ColPool)) :
     Distinct([i \in DOMAIN r |-> r[i][1]])}

----------------------------------------------------------------------------
(* DataFrames *)

NoFrame ==
  [index |-> <<>>, index_name |-> "undefined",
   columns |-> <<>>, columns_name |-> "undefined", data |-> <<>>]

NRows(frame) == Len(frame.index)

NCols(frame) == Len(frame.columns)

\* RangeIndex(n): the labels 0 .. n-1
RangeIndex(n) == [i \in 1..n |-> i - 1]

\* the dict literal's lists all have the length of the index
SameLength(r) == \A j \in DOMAIN r.data : Len(r.data[j]) = Len(r.index)

\* mutant of DataFrame: cuts the index and every list to the shortest of them
DataFrame_truncating(r) ==
  LET lens == {Len(r.index)} \cup {Len(r.data[j]) : j \in DOMAIN r.data}
      n == CHOOSE m \in lens : \A k \in lens : m <= k
  IN [err |-> "none",
      frame |-> [index |-> SubSeq(r.index, 1, n), index_name |-> "None",
                 columns |-> r.columns, columns_name |-> "None",
                 data |-> [j \in DOMAIN r.data |-> SubSeq(r.data[j], 1, n)]]]

\* pd.DataFrame(dict of lists, index=...): raises ValueError unless every list
\* has the length of the index; nothing is truncated or padded
DataFrame(r) ==
  IF SameLength(r)
  THEN [err |-> "none",
        frame |-> [index |-> r.index, index_name |-> "None",
                   columns |-> r.columns, columns_name |-> "None",
                   data |-> r.data]]
  ELSE [err |-> "ValueError", frame |-> NoFrame]

\* untidy.index.name = ...; untidy.columns.name = ...   (in place, on untidy)
SetAxisNames(frame, index_name, columns_name) ==
  [frame EXCEPT !.index_name = index_name, !.columns_name = columns_name]

\* mutant of reset_index: reset_index(inplace=True), self becomes the result
reset_index_inplace(frame) ==
  LET moved == [index |-> [i \in 1..Len(frame.index) |-> i - 1],
                index_name |-> "None",
                columns |-> <<frame.index_name>> \o frame.columns,
                columns_name |-> frame.columns_name,
                data |-> <<frame.index>> \o frame.data]
  IN [self |-> moved, result |-> moved]

\* frame.reset_index(): self is left alone; the result is a copy whose first
\* column is the old index under its name, with a fresh RangeIndex
reset_index(frame) ==
  [self |-> frame,
   result |-> [index |-> RangeIndex(NRows(frame)), index_name |-> "None",
               columns |-> <<frame.index_name>> \o frame.columns,
               columns_name |-> frame.columns_name,
               data |-> <<frame.index>> \o frame.data]]

\* mutant of tile: the array once, not k times
tile_once(arr, k) == arr

\* np.tile(arr, k): the whole array k times
tile(arr, k) ==
  [i \in 1..(Len(arr) * k) |-> arr[((i - 1) % Len(arr)) + 1]]

\* mutant of repeat: cycles through the array instead of repeating each element
repeat_cycling(arr, n) ==
  [i \in 1..(Len(arr) * n) |-> arr[((i - 1) % Len(arr)) + 1]]

\* arr.repeat(n): every element n times in a row
repeat(arr, n) ==
  [i \in 1..(Len(arr) * n) |-> arr[((i - 1) \div n) + 1]]

\* mutant of ravelF: ravel('C'), the rows one after another
ravelC(data) ==
  LET K == Len(data)
      N == IF K = 0 THEN 0 ELSE Len(data[1])
  IN [k \in 1..(N * K) |-> data[((k - 1) % K) + 1][((k - 1) \div K) + 1]]

\* frame.values.ravel('F'): the columns one after another
RECURSIVE ravelF(_)
ravelF(data) ==
  IF data = <<>> THEN <<>> ELSE Head(data) \o ravelF(Tail(data))

\* position of the first column carrying this label
Loc(columns, label) ==
  CHOOSE j \in DOMAIN columns :
    columns[j] = label /\ \A k \in 1..(j - 1) : columns[k] # label

\* mutant of Without: the id column is read but not removed
Without_keeping(s, p) == s

\* frame.pop(col) on melt's private copy: the frame without that column
Without(s, p) == [j \in 1..(Len(s) - 1) |-> IF j < p THEN s[j] ELSE s[j + 1]]

\* mdata[label] after the writes of melt, in order: a later write to the same
\* key replaces the earlier one
Lookup(writes, label) ==
  LET hits == {j \in DOMAIN writes : writes[j][1] = label}
      last == CHOOSE j \in hits : \A k \in hits : k <= j
  IN writes[last][2]

\* pd.melt(frame, id_vars=[id_var], value_name=value_name): var_name defaults
\* to frame.columns.name; works on a copy of frame
melt(frame, id_var, value_name) ==
  LET var_name == IF frame.columns_name = "None" THEN "variable"
                  ELSE frame.columns_name
      N == NRows(frame)
      K == NCols(frame) - 1
      p == Loc(frame.columns, id_var)
      rest == Without(frame.data, p)
      restcols == Without(frame.columns, p)
      mdata == << <<id_var, tile(frame.data[p], K)>>,
                  <<value_name, ravelF(rest)>>,
                  <<var_name, repeat(restcols, N)>> >>
      mcolumns == <<id_var, var_name, value_name>>
      arrays == [j \in 1..3 |-> Lookup(mdata, mcolumns[j])]
  IN [index |-> RangeIndex(Len(arrays[1])), index_name |-> "None",
      columns |-> mcolumns, columns_name |-> "None", data |-> arrays]

\* replace, pairs applied one after another (object dtype, pandas < 0.24)
RECURSIVE replace_sequential(_, _)
replace_sequential(arr, pairs) ==
  IF pairs = <<>> THEN arr
  ELSE replace_sequential(
         [i \in DOMAIN arr |-> IF arr[i] = Head(pairs)[1] THEN Head(pairs)[2]
                               ELSE arr[i]],
         Tail(pairs))

\* replace, every value looked up once in the dict (pandas >= 0.24)
replace_simultaneous(arr, pairs) ==
  [i \in DOMAIN arr |->
     IF \E k \in DOMAIN pairs : pairs[k][1] = arr[i]
     THEN pairs[CHOOSE k \in DOMAIN pairs : pairs[k][1] = arr[i]][2]
     ELSE arr[i]]

\* mutant of replace: the pairs always applied one after another
replace_in_turn(arr, pairs, sequential) == replace_sequential(arr, pairs)

\* Series.replace(dict): keys that match no value change nothing, no error
replace(arr, pairs, sequential) ==
  IF sequential THEN replace_sequential(arr, pairs)
  ELSE replace_simultaneous(arr, pairs)

\* frame[label].replace(dict, inplace=True): the columns under that label
replace_inplace(frame, label, pairs, sequential) ==
  [frame EXCEPT !.data =
     [j \in DOMAIN frame.data |->
        IF frame.columns[j] = label
        THEN replace(frame.data[j], pairs, sequential)
        ELSE frame.data[j]]]

\* mutant of tidy_cell: raises when a key of the dict is no column or when the
\* three names are not pairwise distinct
tidy_cell_validating(frame, names, pairs, sequential, reaches) ==
  IF \/ \E k \in DOMAIN pairs : pairs[k][1] \notin ToSet(frame.columns)
     \/ names.row = names.var \/ names.row = names.val \/ names.var = names.val
  THEN [err |-> "ValueError", untidy |-> frame, tidy |-> NoFrame]
  ELSE [err |-> "none",
        untidy |-> SetAxisNames(frame, names.row, names.var),
        tidy |-> replace_inplace(
                   melt(reset_index(SetAxisNames(frame, names.row, names.var)).result,
                        names.row, names.val),
                   names.var, pairs, sequential)]

\* lines 88-91, the whole reshape: name the axes of untidy, melt a copy that
\* carries the index as a column, substitute in the variable column.  A
\* variable label that another field carries too selects a DataFrame instead
\* of the cached Series, and whether the in-place change of it reaches tidy is
\* not fixed: reaches.  Nothing in these lines raises on a valid frame.
tidy_cell(frame, names, pairs, sequential, reaches) ==
  LET named == SetAxisNames(frame, names.row, names.var)
      r == reset_index(named)
      melted == melt(r.result, names.row, names.val)
      replaced == replace_inplace(melted, names.var, pairs, sequential)
  IN [err |-> "none", untidy |-> r.self,
      tidy |-> IF reaches THEN replaced ELSE melted]

\* line 171: the amount added for the evening measurement (also line 192)
ComplexShift == 10

\* line 192: the first index label of .loc[6:, ...]
LocStart == 6

\* line 193: the hours, and how often [6]*6 + [18]*6 repeats each
HourMorning == 6

HourEvening == 18

HourRepeat == 6

\* line 172
ComplexColumns ==
  <<"treatment_a_0600", "treatment_b_0600",
    "treatment_a_1800", "treatment_b_1800">>

\* line 193: [6]*6 + [18]*6
HourList ==
  [i \in 1..HourRepeat |-> HourMorning] \o [i \in 1..HourRepeat |-> HourEvening]

\* frame + n: a new frame, every value n larger
add(frame, n) ==
  [frame EXCEPT !.data =
     [j \in DOMAIN frame.data |->
        [i \in DOMAIN frame.data[j] |-> frame.data[j][i] + n]]]

\* pd.concat([left, right], axis='columns') of two frames with the same index
concat_columns(left, right) ==
  [left EXCEPT !.columns = left.columns \o right.columns,
               !.data = left.data \o right.data]

\* frame.columns = names: ValueError (length mismatch) unless one name per
\* column; the frame is left as it was then
set_columns(frame, names) ==
  IF Len(names) = NCols(frame)
  THEN [err |-> "none",
        frame |-> [frame EXCEPT !.columns = names, !.columns_name = "None"]]
  ELSE [err |-> "ValueError", frame |-> frame]

\* top.append(bottom): a new frame, rows of top then rows of bottom, index
\* labels kept
append(top, bottom) ==
  [top EXCEPT !.index = top.index \o bottom.index,
              !.data = [j \in DOMAIN top.data |-> top.data[j] \o bottom.data[j]]]

\* frame.reset_index(drop=True): the index renumbered, no column added
reset_index_drop(frame) ==
  [frame EXCEPT !.index = RangeIndex(NRows(frame)), !.index_name = "None"]

\* mutant of loc_add: the slice taken as starting after the label
loc_add_exclusive(frame, start, label, n) ==
  [frame EXCEPT !.data =
     [j \in DOMAIN frame.data |->
        IF frame.columns[j] = label
        THEN [i \in DOMAIN frame.data[j] |->
                IF frame.index[i] > start THEN frame.data[j][i] + n
                ELSE frame.data[j][i]]
        ELSE frame.data[j]]]

\* frame.loc[start:, label] += n on an increasing integer index: the rows
\* whose index label is at least start
loc_add(frame, start, label, n) ==
  [frame EXCEPT !.data =
     [j \in DOMAIN frame.data |->
        IF frame.columns[j] = label
        THEN [i \in DOMAIN frame.data[j] |->
                IF frame.index[i] >= start THEN frame.data[j][i] + n
                ELSE frame.data[j][i]]
        ELSE frame.data[j]]]

\* frame[label] = values for a new label: ValueError unless one value per row
set_item(frame, label, values) ==
  IF Len(values) = NRows(frame)
  THEN [err |-> "none",
        frame |-> [frame EXCEPT !.columns = Append(frame.columns, label),
                                !.data = Append(frame.data, values)]]
  ELSE [err |-> "ValueError", frame |-> frame]

----------------------------------------------------------------------------
(* The cells *)

\* lines 68-70
Cell_untidy ==
  /\ pc = "start"
  /\ LET r == DataFrame(raw)
     IN /\ err' = r.err
        /\ untidy' = r.frame
        /\ pc' = IF r.err = "none" THEN "untidy" ELSE "failed"
  /\ UNCHANGED <<raw, rename, labels, sequentialReplace,
                 tidy, untidy_complex, tidy_complex>>

\* lines 88-92
Cell_tidy ==
  /\ pc = "untidy"
  /\ \E reaches \in (IF labels.var \in {labels.row, labels.val} THEN BOOLEAN
                     ELSE {TRUE}) :
       LET r == tidy_cell(untidy, labels, rename, sequentialReplace, reaches)
       IN /\ untidy' = r.untidy
          /\ tidy' = r.tidy
          /\ err' = r.err
          /\ pc' = IF r.err = "none" THEN "tidy" ELSE "failed"
  /\ UNCHANGED <<raw, rename, labels, sequentialReplace,
                 untidy_complex, tidy_complex>>

\* lines 171-173
Cell_untidy_complex ==
  /\ pc = "tidy"
  /\ LET both == concat_columns(untidy, add(untidy, ComplexShift))
         r == set_columns(both, ComplexColumns)
     IN /\ untidy_complex' = r.frame
        /\ err' = r.err
        /\ pc' = IF r.err = "none" THEN "untidy_complex" ELSE "failed"
  /\ UNCHANGED <<raw, rename, labels, sequentialReplace,
                 untidy, tidy, tidy_complex>>

\* lines 191-194
Cell_tidy_complex ==
  /\ pc = "untidy_complex"
  /\ LET appended == reset_index_drop(append(tidy, tidy))
         shifted == loc_add(appended, LocStart, "IgG_level", ComplexShift)
         r == set_item(shifted, "hour", HourList)
     IN /\ tidy_complex' = r.frame
        /\ err' = r.err
        /\ pc' = IF r.err = "none" THEN "tidy_complex" ELSE "failed"
  /\ UNCHANGED <<raw, rename, labels, sequentialReplace,
                 untidy, tidy, untidy_complex>>

Init ==
  /\ pc = "start"
  /\ err = "none"
  /\ raw \in RawTables \cup {NotebookRaw, NotebookRagged}
  /\ rename \in Renames
  /\ labels = SourceLabels
  /\ sequentialReplace \in BOOLEAN
  /\ untidy = NoFrame
  /\ tidy = NoFrame
  /\ untidy_complex = NoFrame
  /\ tidy_complex = NoFrame

Next ==
  \/ Cell_untidy
  \/ Cell_tidy
  \/ Cell_untidy_complex
  \/ Cell_tidy_complex

Spec == Init /\ [][Next]_vars

\* the reshape alone (lines 68-92), with the three field names as inputs too
InitLabels ==
  /\ pc = "start"
  /\ err = "none"
  /\ raw \in RawTables \cup {NotebookRaw, NotebookRagged}
  /\ rename \in {<<>>, NotebookRename}
  /\ labels \in [row : LabelPool, var : LabelPool, val : LabelPool]
  /\ sequentialReplace \in BOOLEAN
  /\ untidy = NoFrame
  /\ tidy = NoFrame
  /\ untidy_complex = NoFrame
  /\ tidy_complex = NoFrame

NextReshape == Cell_untidy \/ Cell_tidy

SpecLabels == InitLabels /\ [][NextReshape]_vars

----------------------------------------------------------------------------
(* What the claims speak of *)

\* the reshape cell has run
Reshaped == pc \notin {"start", "untidy"} /\ SameLength(raw)

\* the records of a long frame: (row identifier, variable identifier, value)
Records(frame) ==
  [i \in 1..NRows(frame) |-> <<frame.data[1][i], frame.data[2][i], frame.data[3][i]>>]

\* rename.get(column, column)
Get(pairs, c) ==
  IF \E k \in DOMAIN pairs : pairs[k][1] = c
  THEN pairs[CHOOSE k \in DOMAIN pairs : pairs[k][1] = c][2]
  ELSE c

\* no replacement value is another key of the substitution table
NoChain(pairs) ==
  \A i, j \in DOMAIN pairs : i # j => pairs[i][2] # pairs[j][1]

\* rename.get sends different columns to different variable identifiers
InjectiveOn(pairs, columns) ==
  \A i, j \in DOMAIN columns : i # j => Get(pairs, columns[i]) # Get(pairs, columns[j])

\* the single-step algorithm: for each column, for each row, emit one record
RECURSIVE ToLongFrom(_, _, _)
ToLongFrom(wide, pairs, j) ==
  IF j > Len(wide.columns) THEN <<>>
  ELSE [i \in 1..Len(wide.index) |->
          <<wide.index[i], Get(pairs, wide.columns[j]), wide.data[j][i]>>]
       \o ToLongFrom(wide, pairs, j + 1)

ToLong(wide, pairs) == ToLongFrom(wide, pairs, 1)

\* the (row identifier, variable identifier) pairs of the records
Pairs(recs) == {<<recs[i][1], recs[i][2]>> : i \in DOMAIN recs}

NoDuplicatePairs(recs) ==
  \A i, j \in DOMAIN recs :
    i # j => <<recs[i][1], recs[i][2]>> # <<recs[j][1], recs[j][2]>>

FullCross(recs, wide, pairs) ==
  Pairs(recs) = ToSet(wide.index) \X {Get(pairs, c) : c \in ToSet(wide.columns)}

\* pivoting recs gives back wide: every cell of wide is the value of exactly
\* one record under its row identifier and variable identifier, and every
\* record is such a cell
PivotGivesBack(recs, wide, pairs) ==
  /\ \A i \in DOMAIN wide.index, j \in DOMAIN wide.columns :
       LET cell == {k \in DOMAIN recs :
                      /\ recs[k][1] = wide.index[i]
                      /\ recs[k][2] = Get(pairs, wide.columns[j])}
       IN /\ Cardinality(cell) = 1
          /\ \A k \in cell : recs[k][3] = wide.data[j][i]
  /\ \A k \in DOMAIN recs :
       \E i \in DOMAIN wide.index, j \in DOMAIN wide.columns :
         /\ recs[k][1] = wide.index[i]
         /\ recs[k][2] = Get(pairs, wide.columns[j])

PairwiseDistinctLabels ==
  /\ labels.row # labels.var
  /\ labels.row # labels.val
  /\ labels.var # labels.val

\* the substitution table has a key that is no column of the table
UnmatchedKey == \E k \in DOMAIN rename : rename[k][1] \notin ToSet(raw.columns)

MatchedOnly == SelectSeq(rename, LAMBDA pr : pr[1] \in ToSet(raw.columns))

----------------------------------------------------------------------------
(* C1: for every valid wide table, empty ones included, the reshape raises *)
(* nothing and returns exactly |rows| x |columns| records.                 *)
C1_RecordCount ==
  Reshaped =>
    /\ tidy # NoFrame
    /\ pc = "tidy" => err = "none"
    /\ NRows(tidy) = Len(raw.index) * Len(raw.columns)
    /\ \A j \in 1..3 : Len(tidy.data[j]) = Len(raw.index) * Len(raw.columns)

C1_Witness ==
  /\ pc = "tidy"
  /\ Len(raw.index) = 2
  /\ Len(raw.columns) = 2
  /\ NRows(tidy) = 4

C1_WitnessEmpty ==
  /\ pc = "tidy"
  /\ Len(raw.index) = 0
  /\ Len(raw.columns) = 2
  /\ Records(tidy) = <<>>

(* C2 as stated: for every valid wide table and every substitution table   *)
(* the (row, variable) pairs of the output are the full cross product and  *)
(* no pair occurs in two records.                                          *)
C2_Original ==
  Reshaped =>
    /\ FullCross(Records(tidy), raw, rename)
    /\ NoDuplicatePairs(Records(tidy))

(* C2 amended: the same, for tables whose row identifiers are pairwise     *)
(* distinct and substitution tables that send different columns to         *)
(* different variable identifiers and have no replacement value that is    *)
(* another key.                                                            *)
C2_CrossProduct ==
  (/\ Reshaped
   /\ Distinct(raw.index)
   /\ InjectiveOn(rename, raw.columns)
   /\ NoChain(rename)) =>
    /\ FullCross(Records(tidy), raw, rename)
    /\ NoDuplicatePairs(Records(tidy))

C2_Witness ==
  /\ pc = "tidy"
  /\ raw = NotebookRaw
  /\ rename = NotebookRename
  /\ Cardinality(Pairs(Records(tidy))) = 6

\* record k of the column-major order
ColumnMajor(wide, pairs, k) ==
  LET N == Len(wide.index)
      j == ((k - 1) \div N) + 1
      i == ((k - 1) % N) + 1
  IN <<wide.index[i], Get(pairs, wide.columns[j]), wide.data[j][i]>>

IsColumnMajor(recs, wide, pairs) ==
  /\ Len(recs) = Len(wide.index) * Len(wide.columns)
  /\ \A k \in DOMAIN recs : recs[k] = ColumnMajor(wide, pairs, k)

(* C3 as stated: for every valid wide table and every substitution table   *)
(* the output is the column-major sequence of (row identifier,             *)
(* rename.get(column, column), value).                                     *)
C3_Original == Reshaped => IsColumnMajor(Records(tidy), raw, rename)

(* C3 amended: the same, for substitution tables in which no replacement   *)
(* value is another key; the notebook's table and substitution give the    *)
(* six records of the example, in that order.                              *)
C3_ColumnMajor ==
  (Reshaped /\ NoChain(rename)) => IsColumnMajor(Records(tidy), raw, rename)

C3_Witness ==
  /\ pc = "tidy"
  /\ raw = NotebookRaw
  /\ rename = NotebookRename
  /\ Records(tidy) = << <<"John Smith", "a", 9>>, <<"Jane Doe", "a", 16>>,
                        <<"Mary Johnson", "a", 3>>, <<"John Smith", "b", 2>>,
                        <<"Jane Doe", "b", 11>>, <<"Mary Johnson", "b", 1>> >>

C5_Original ==
  (Reshaped /\ UnmatchedKey) => (err # "none" /\ tidy = NoFrame)

(* C5 amended: a substitution key that is no column never makes the       *)
(* reshape fail: it raises nothing and returns |rows| x |columns| records; *)
(* when no replacement value is another key, the key is ignored, the       *)
(* output being the one the substitution table without it gives.           *)
C5_UnmatchedKeyIgnored ==
  (Reshaped /\ UnmatchedKey) =>
    /\ pc = "tidy" => err = "none"
    /\ NRows(tidy) = Len(raw.index) * Len(raw.columns)
    /\ NoChain(rename) =>
         tidy = tidy_cell(untidy, labels, MatchedOnly, sequentialReplace, TRUE).tidy

C5_Witness ==
  /\ pc = "tidy"
  /\ raw.columns = <<"treatment_a">>
  /\ Len(raw.index) = 2
  /\ rename = NotebookRename
  /\ Records(tidy)[1][2] = "a"

(* C6 as stated: field names that are not pairwise distinct make the       *)
(* reshape fail and produce no records.                                    *)
C6_Original ==
  (Reshaped /\ ~PairwiseDistinctLabels) => (err # "none" /\ tidy = NoFrame)

(* C6 amended: the field names are not checked: with names that are not    *)
(* pairwise distinct the reshape of a valid table still raises nothing and *)
(* returns |rows| x |columns| records under the three names given; fields  *)
(* that share a name hold the same contents.                               *)
C6_LabelsUnchecked ==
  (Reshaped /\ ~PairwiseDistinctLabels) =>
    /\ pc = "tidy"
    /\ err = "none"
    /\ tidy.columns = <<labels.row, labels.var, labels.val>>
    /\ NRows(tidy) = Len(raw.index) * Len(raw.columns)
    /\ \A i, j \in 1..3 : tidy.columns[i] = tidy.columns[j] => tidy.data[i] = tidy.data[j]

C6_Witness ==
  /\ pc = "tidy"
  /\ labels.var = labels.val
  /\ labels.row # labels.var
  /\ NRows(tidy) = 4
  /\ tidy.data[3] = tidy.data[2]

(* C7: the reshape, the substitution included, leaves the row identifiers, *)
(* the column identifiers and every value of its input as they were.       *)
C7_InputUnchanged ==
  (pc # "start" /\ SameLength(raw)) =>
    /\ untidy.columns = raw.columns
    /\ untidy.index = raw.index
    /\ untidy.data = raw.data

C7_Witness ==
  /\ pc = "tidy"
  /\ raw = NotebookRaw
  /\ rename = NotebookRename
  /\ untidy.data = NotebookRaw.data
  /\ tidy.data[2] # repeat(raw.columns, 3)

(* C8 as stated: for every valid wide table and every substitution table   *)
(* that sends no two columns to the same variable identifier, pivoting the *)
(* output gives back the table value for value.                            *)
C8_Original ==
  (Reshaped /\ InjectiveOn(rename, raw.columns)) =>
    PivotGivesBack(Records(tidy), raw, rename)

(* C8 amended: the same, for tables whose row identifiers are pairwise     *)
(* distinct and substitution tables in which no replacement value is       *)
(* another key.                                                            *)
C8_RoundTrip ==
  (/\ Reshaped
   /\ InjectiveOn(rename, raw.columns)
   /\ Distinct(raw.index)
   /\ NoChain(rename)) =>
    PivotGivesBack(Records(tidy), raw, rename)

C8_Witness ==
  /\ pc = "tidy"
  /\ Len(raw.index) = 2
  /\ Distinct(raw.index)
  /\ raw.columns = <<"treatment_b", "treatment_a">>
  /\ raw.data = << <<1, 2>>, <<2, 2>> >>
  /\ rename = << <<"treatment_a", "a">> >>

\* a replacement value is another key: a swap or a chain
HasChain == ~NoChain(rename)

(* C9 as stated: melting first and substituting afterwards gives, for      *)
(* every valid wide table and every substitution table, swaps and chains   *)
(* included, the records of the single-step algorithm.                     *)
C9_Original == Reshaped => Records(tidy) = ToLong(raw, rename)

(* C9 amended: the two agree for every substitution table in which no      *)
(* replacement value is another key, and for swaps and chains too where    *)
(* replace applies all pairs at once.                                      *)
C9_TwoStepEqualsOneStep ==
  (Reshaped /\ (NoChain(rename) \/ ~sequentialReplace)) =>
    Records(tidy) = ToLong(raw, rename)

C9_Witness ==
  /\ pc = "tidy"
  /\ ~sequentialReplace
  /\ rename = << <<"treatment_a", "treatment_b">>, <<"treatment_b", "treatment_a">> >>
  /\ raw.columns = <<"treatment_a", "treatment_b">>
  /\ Len(raw.index) = 2
  /\ tidy.data[2] = <<"treatment_b", "treatment_b", "treatment_a", "treatment_a">>

\* the column of untidy_complex that holds treatment t at hour h (line 172)
ComplexName(t, h) ==
  CASE t = "a" /\ h = HourMorning -> "treatment_a_0600"
    [] t = "b" /\ h = HourMorning -> "treatment_b_0600"
    [] t = "a" /\ h = HourEvening -> "treatment_a_1800"
    [] t = "b" /\ h = HourEvening -> "treatment_b_1800"

\* untidy_complex[name][person], for a person that occurs once in the index
WideCell(frame, name, person) ==
  frame.data[Loc(frame.columns, name)][Loc(frame.index, person)]

\* the rows of tidy_complex for person p, treatment t, hour h
ComplexRows(p, t, h) ==
  {i \in 1..NRows(tidy_complex) :
     /\ tidy_complex.data[1][i] = p
     /\ tidy_complex.data[2][i] = t
     /\ tidy_complex.data[4][i] = h}

(* C10: once tidy_complex and untidy_complex are built from a table with   *)
(* the notebook's two columns, three distinct persons and the notebook's   *)
(* substitution, (person, treatment, hour) is a key of the 12 rows of      *)
(* tidy_complex and each row's IgG_level is the cell of untidy_complex     *)
(* for that person, treatment and hour: the original value at hour 6, the  *)
(* original value plus 10 at hour 18.                                      *)
C10_SameObservations ==
  (/\ pc = "tidy_complex"
   /\ rename = NotebookRename
   /\ raw.columns = <<"treatment_a", "treatment_b">>
   /\ Distinct(raw.index)) =>
    /\ NRows(tidy_complex) = 12
    /\ tidy_complex.columns = <<"person", "treatment", "IgG_level", "hour">>
    /\ \A p \in ToSet(raw.index), t \in ShortNames, h \in {HourMorning, HourEvening} :
         /\ Cardinality(ComplexRows(p, t, h)) = 1
         /\ \A i \in ComplexRows(p, t, h) :
              /\ tidy_complex.data[3][i] = WideCell(untidy_complex, ComplexName(t, h), p)
              /\ tidy_complex.data[3][i] =
                   WideCell(untidy, IF t = "a" THEN "treatment_a" ELSE "treatment_b", p)
                   + (IF h = HourEvening THEN ComplexShift ELSE 0)

C10_Witness ==
  /\ pc = "tidy_complex"
  /\ raw = NotebookRaw
  /\ rename = NotebookRename
  /\ err = "none"
  /\ tidy_complex.data[3] = <<9, 16, 3, 2, 11, 1, 19, 26, 13, 12, 21, 11>>
  /\ untidy_complex.data = << <<9, 16, 3>>, <<2, 11, 1>>, <<19, 26, 13>>, <<12, 21, 11>> >>

====
